---- MODULE Spec2Model ----
(***************************************************************************)
(* Model of the resilient ingestion pipeline of                            *)
(* spr-based-on-qdrant-and-splade:                                         *)
(*   - batch_upsert.py : upsert_points_batched / _upsert_batch_with_retry  *)
(*   - encode.py       : get_cached_token2id, _encode_batch_documents,     *)
(*                       encode_documents2points, _sparse_vector_to_point, *)
(*                       encode_query2vector                               *)
(*   - main.py         : SparseSearchEngine.upsert_documents               *)
(* Five components, each with its own initial condition and next-state     *)
(* relation; a component that is not running sits in its "idle" state.     *)
(*                                                                         *)
(* Python values: an Optional value is a sequence of length 0 or 1         *)
(* (None is << >>, the integer n is <<n>>); a list is a sequence; list     *)
(* positions are Python's 0-based positions wherever the code computes     *)
(* with them.                                                              *)
(***************************************************************************)
EXTENDS Integers, Sequences, FiniteSets, TLC

VARIABLES
    \* ---- batch_upsert.py: upsert_points_batched ----
    points,          \* the argument `points`: the ids of the points, in order
    uconfig,         \* the BatchUpsertConfig in force
    uPc,             \* position of the call
    batch_idx,       \* loop variable of upsert_points_batched
    total_upserted,  \* accumulator of upsert_points_batched
    attempt,         \* loop variable of _upsert_batch_with_retry
    delay,           \* local `delay` of _upsert_batch_with_retry
    curLog,          \* history: client.upsert calls made for the current batch
    curSleeps,       \* history: time.sleep calls made for the current batch
    outcomes,        \* history: one entry per batch that _upsert_batch_with_retry left
    uResult,         \* the value upsert_points_batched returned (Optional)
    \* ---- encode.py: the vocabulary cache ----
    token2id_cache,  \* _token2id_cache: model_path -> Optional table
    cache_lock,      \* _cache_lock: the thread holding it (Optional)
    tPc,             \* per thread: position inside get_cached_token2id
    tArgs,           \* per thread: the arguments of its current call
    tRet,            \* per thread: how its last call ended
    loadLog,         \* history: per model_path, how each get_vocab() call ended
    calls,           \* history: number of get_cached_token2id calls begun
    \* ---- encode.py: encode_documents2points ----
    docs,            \* the argument `docs`
    econfig,         \* the EncodingConfig in force
    ePc,             \* position of the call
    futures,         \* per chunk index: state of the future of that chunk
    futResult,       \* per chunk index: what the finished future holds
    points_dict,     \* chunk index -> Optional list of points collected
    modelCalls,      \* history: the encoder.encode calls made, in order
    modelErrors,     \* history: the paths of the encoder.encode calls that raised
    eCause,          \* history: what sent the parallel stage to the fallback
    eResult,         \* the value encode_documents2points returned (Optional)
    \* ---- encode.py: _sparse_vector_to_point ----
    doc_id,          \* the argument `doc_id`
    doc,             \* the argument `doc`
    sparse_vector,   \* the argument `sparse_vector`: (token, weight) in dict order
    token2id,        \* the argument / local `token2id`: token -> id
    pPc,             \* position of the call
    pRet,            \* the PointStruct returned (Optional)
    \* ---- encode.py: encode_query2vector ----
    query,           \* the argument `query`: its characters
    qPc,             \* position of the call
    query_sparse_vector, \* what the model gave for the query (Optional)
    qLog,            \* history: the cache and model calls made, in order
    qRet,            \* how the call ended (Optional)
    \* ---- main.py: SparseSearchEngine.upsert_documents ----
    documents,       \* the argument `documents`
    is_initialized,  \* self.is_initialized, with client and encoder set
    mPc,             \* position of the call
    storeWrites,     \* history: the client.upsert calls made, in order
    mRet,            \* the value upsert_documents returned (Optional)
    \* ---- encode.py: encode_documents2points_batched ----
    gArgs,           \* the arguments docs, batch_size, id_offset
    gPc,             \* position of the generator
    batch_start,     \* loop variable
    yielded,         \* history: the (batch_offset, batch_points) pairs yielded
    gCalls           \* history: the _encode_batch_documents calls made

uvars == <<points, uconfig, uPc, batch_idx, total_upserted, attempt, delay,
           curLog, curSleeps, outcomes, uResult>>

cvars == <<token2id_cache, cache_lock, tPc, tArgs, tRet, loadLog, calls>>

evars == <<docs, econfig, ePc, futures, futResult, points_dict, modelCalls,
           modelErrors, eCause, eResult>>

qvars == <<doc_id, doc, sparse_vector, token2id, pPc, pRet, query, qPc,
           query_sparse_vector, qLog, qRet>>

mvars == <<documents, is_initialized, mPc, storeWrites, mRet>>

gvars == <<gArgs, gPc, batch_start, yielded, gCalls>>

vars == <<uvars, cvars, evars, qvars, mvars, gvars>>

(***************************************************************************)
(* Bounds of the model.                                                    *)
(***************************************************************************)
MaxPoints == 5
MaxBatchSize == 3
MaxRetries == 3
NumThreads == 2
NumModels == 2
MaxCalls == 3
MaxDocs == 3
MaxThreshold == 1
MaxWorkers == 2
MaxVectorLen == 2
MaxQueryLen == 2

None == << >>
Some(x) == <<x>>
Min(a, b) == IF a < b THEN a ELSE b
Max(a, b) == IF a > b THEN a ELSE b

RECURSIVE Pow2(_)
Pow2(k) == IF k <= 0 THEN 1 ELSE 2 * Pow2(k - 1)

RECURSIVE SumSeq(_)
SumSeq(s) == IF s = << >> THEN 0 ELSE Head(s) + SumSeq(Tail(s))

\* Python's s[a:b] for 0 <= a and b <= len(s).
Slice(s, a, b) == SubSeq(s, a + 1, b)

(***************************************************************************)
(* batch_upsert.py                                                         *)
(***************************************************************************)

\* What one client.upsert call can do: return, or raise some Exception.  The
\* code has no classification of the exception; the two failure kinds tell a
\* retryable store error from a permanent rejection.
WriteOutcomes == {"ok", "transient", "permanent"}

\* The values of config.retry_delay_seconds of the model, in whole seconds.
Delays == {1, 3}

\* Variant: floor division, the partial last batch is lost.
NumBatches_Floor(n, b) == n \div b

\* num_batches = (len(points) + config.batch_size - 1) // config.batch_size
NumBatches(n, b) == (n + b - 1) \div b

\* Variant: a batch starts on the last point of the batch before it.
BatchStart_Overlap(idx, b) == IF idx = 0 THEN 0 ELSE idx * b - 1

\* batch_start = batch_idx * config.batch_size
BatchStart(idx, b) == idx * b

\* batch_end = min(batch_start + config.batch_size, len(points))
BatchEnd(idx, b, n) == Min(BatchStart(idx, b) + b, n)

\* batch = points[batch_start:batch_end]
Batch(pts, idx, b) == Slice(pts, BatchStart(idx, b), BatchEnd(idx, b, Len(pts)))

\* Variant: the last attempt is taken to be the one after max_retries.
IsLastAttempt_OffByOne(att, maxr) == att = maxr + 1

\* is_last_attempt = attempt == config.max_retries
IsLastAttempt(att, maxr) == att = maxr

\* Variant: the delay is never doubled.
NextDelay_Constant(d) == d

\* delay *= 2
NextDelay(d) == d * 2

\* The except clause of _upsert_batch_with_retry: `except Exception` takes
\* every failure alike, whatever its kind.
Retryable(outcome) == outcome \in {"transient", "permanent"}

\* return len(batch)
SuccessReturn(batch) == Some(Len(batch))

\* return 0, after the last attempt failed
ExhaustedReturn(batch) == Some(0)

\* The for loop of _upsert_batch_with_retry ends without a return statement
\* when range(1, max_retries + 1) is empty: Python returns None.
FallThroughReturn(batch) == None

\* Variant: `=` written for `+=`.
Accumulate_Overwrite(total, upserted) == upserted

\* total_upserted += upserted
Accumulate(total, upserted) == total + upserted

\* What the caller reads off the returned value: upsert_points_batched
\* returns a bare int (the total), which has no other component.
Reported(result, field) ==
    IF field = "total_upserted" THEN result ELSE None

UpsertIdle ==
    /\ points = << >>
    /\ uconfig = [batch_size |-> 1, max_retries |-> 1, retry_delay_seconds |-> 1]
    /\ uPc = "idle"
    /\ batch_idx = 0
    /\ total_upserted = 0
    /\ attempt = 0
    /\ delay = 0
    /\ curLog = << >>
    /\ curSleeps = << >>
    /\ outcomes = << >>
    /\ uResult = None

\* A call upsert_points_batched(client, collection_name, points, config).
UpsertInit ==
    /\ \E n \in 0..MaxPoints : points = [i \in 1..n |-> i - 1]
    /\ uconfig \in [batch_size : 1..MaxBatchSize,
                    max_retries : 0..MaxRetries,
                    retry_delay_seconds : Delays]
    /\ uPc = "call"
    /\ batch_idx = 0
    /\ total_upserted = 0
    /\ attempt = 0
    /\ delay = 0
    /\ curLog = << >>
    /\ curSleeps = << >>
    /\ outcomes = << >>
    /\ uResult = None

\* Lines 62-75: the empty list returns 0 at once; otherwise the loop starts.
UpsertCall ==
    /\ uPc = "call"
    /\ IF points = << >>
         THEN /\ uPc' = "done"
              /\ uResult' = Some(0)
         ELSE /\ uPc' = "loop"
              /\ uResult' = uResult
    /\ total_upserted' = 0
    /\ batch_idx' = 0
    /\ UNCHANGED <<points, uconfig, attempt, delay, curLog, curSleeps, outcomes>>
    /\ UNCHANGED <<cvars, evars, qvars, mvars, gvars>>

\* Variant: a batch that exhausted its attempts ends the loop (the rest of
\* the batches is skipped).
LeaveBatch_AbortOnFailure(upserted, log) ==
    /\ outcomes' = Append(outcomes,
                     [batch_index |-> batch_idx,
                      batch |-> Batch(points, batch_idx, uconfig.batch_size),
                      upserted |-> upserted,
                      attempts |-> Len(log),
                      sleeps |-> Len(curSleeps),
                      written |-> (log # << >> /\ log[Len(log)].outcome = "ok")])
    /\ IF upserted = None
         THEN /\ uPc' = "raised"
              /\ UNCHANGED <<total_upserted, batch_idx>>
         ELSE /\ total_upserted' = Accumulate(total_upserted, upserted[1])
              /\ batch_idx' = IF log[Len(log)].outcome = "ok"
                                THEN batch_idx + 1
                                ELSE NumBatches(Len(points), uconfig.batch_size)
              /\ uPc' = "loop"

\* Variant: a batch that exhausted its attempts raises RuntimeError out of
\* the call, as the docstring of upsert_points_batched announces.
LeaveBatch_RaiseOnFailure(upserted, log) ==
    /\ outcomes' = Append(outcomes,
                     [batch_index |-> batch_idx,
                      batch |-> Batch(points, batch_idx, uconfig.batch_size),
                      upserted |-> upserted,
                      attempts |-> Len(log),
                      sleeps |-> Len(curSleeps),
                      written |-> (log # << >> /\ log[Len(log)].outcome = "ok")])
    /\ IF upserted = None \/ log[Len(log)].outcome # "ok"
         THEN /\ uPc' = "raised"
              /\ UNCHANGED <<total_upserted, batch_idx>>
         ELSE /\ total_upserted' = Accumulate(total_upserted, upserted[1])
              /\ batch_idx' = batch_idx + 1
              /\ uPc' = "loop"

\* Variant: a batch that exhausted its attempts is taken up again after its
\* outcome was recorded (the loop index is not advanced).
LeaveBatch_RequeueFailed(upserted, log) ==
    /\ outcomes' = Append(outcomes,
                     [batch_index |-> batch_idx,
                      batch |-> Batch(points, batch_idx, uconfig.batch_size),
                      upserted |-> upserted,
                      attempts |-> Len(log),
                      sleeps |-> Len(curSleeps),
                      written |-> (log # << >> /\ log[Len(log)].outcome = "ok")])
    /\ IF upserted = None
         THEN /\ uPc' = "raised"
              /\ UNCHANGED <<total_upserted, batch_idx>>
         ELSE /\ total_upserted' = Accumulate(total_upserted, upserted[1])
              /\ batch_idx' = IF log[Len(log)].outcome = "ok"
                                THEN batch_idx + 1
                                ELSE batch_idx
              /\ uPc' = "loop"

\* The batch _upsert_batch_with_retry is left with `upserted` (Optional int)
\* returned to line 88, and line 91 adds it to the total: None cannot be
\* added to an int, so the call raises TypeError there.
LeaveBatch(upserted, log) ==
    /\ outcomes' = Append(outcomes,
                     [batch_index |-> batch_idx,
                      batch |-> Batch(points, batch_idx, uconfig.batch_size),
                      upserted |-> upserted,
                      attempts |-> Len(log),
                      sleeps |-> Len(curSleeps),
                      written |-> (log # << >> /\ log[Len(log)].outcome = "ok")])
    /\ IF upserted = None
         THEN /\ uPc' = "raised"
              /\ UNCHANGED <<total_upserted, batch_idx>>
         ELSE /\ total_upserted' = Accumulate(total_upserted, upserted[1])
              /\ batch_idx' = batch_idx + 1
              /\ uPc' = "loop"

\* Lines 77-80 and 116-118: the next batch is cut and the retry loop entered.
\* range(1, max_retries + 1) is empty when max_retries < 1: the function then
\* falls off its end and returns None.
BatchBegin ==
    /\ uPc = "loop"
    /\ batch_idx < NumBatches(Len(points), uconfig.batch_size)
    /\ delay' = uconfig.retry_delay_seconds
    /\ curLog' = << >>
    /\ curSleeps' = << >>
    /\ IF uconfig.max_retries >= 1
         THEN /\ attempt' = 1
              /\ uPc' = "attempt"
              /\ UNCHANGED <<total_upserted, batch_idx, outcomes>>
         ELSE /\ attempt' = attempt
              /\ LeaveBatch(FallThroughReturn(Batch(points, batch_idx,
                                                    uconfig.batch_size)), << >>)
    /\ UNCHANGED <<points, uconfig, uResult>>
    /\ UNCHANGED <<cvars, evars, qvars, mvars, gvars>>

\* Lines 93-94: the loop is over, the total is returned.
UpsertReturn ==
    /\ uPc = "loop"
    /\ batch_idx >= NumBatches(Len(points), uconfig.batch_size)
    /\ uPc' = "done"
    /\ uResult' = Some(total_upserted)
    /\ UNCHANGED <<points, uconfig, batch_idx, total_upserted, attempt, delay,
                   curLog, curSleeps, outcomes>>
    /\ UNCHANGED <<cvars, evars, qvars, mvars, gvars>>

\* Lines 119-146: one client.upsert call and what follows it up to the sleep.
Attempt(outcome) ==
    /\ uPc = "attempt"
    /\ LET batch == Batch(points, batch_idx, uconfig.batch_size)
           log == Append(curLog, [attempt |-> attempt, points |-> batch,
                                  outcome |-> outcome])
       IN  /\ curLog' = log
           /\ IF ~Retryable(outcome)
                THEN \* return len(batch)
                     /\ LeaveBatch(SuccessReturn(batch), log)
                     /\ UNCHANGED <<attempt, delay, curSleeps>>
                ELSE IF IsLastAttempt(attempt, uconfig.max_retries)
                THEN \* return 0
                     /\ LeaveBatch(ExhaustedReturn(batch), log)
                     /\ UNCHANGED <<attempt, delay, curSleeps>>
                ELSE /\ uPc' = "sleep"
                     /\ UNCHANGED <<attempt, delay, curSleeps, outcomes,
                                    total_upserted, batch_idx>>
    /\ UNCHANGED <<points, uconfig, uResult>>
    /\ UNCHANGED <<cvars, evars, qvars, mvars, gvars>>

\* Variant: the retry loop is a while loop whose counter is not advanced.
Sleep_SameAttempt ==
    /\ uPc = "sleep"
    /\ curSleeps' = Append(curSleeps, delay)
    /\ delay' = NextDelay(delay)
    /\ uPc' = "attempt"
    /\ UNCHANGED <<points, uconfig, batch_idx, total_upserted, attempt, curLog,
                   outcomes, uResult>>
    /\ UNCHANGED <<cvars, evars, qvars, mvars, gvars>>

\* Lines 147-148 and the loop step: time.sleep(delay); delay *= 2; next attempt.
Sleep ==
    /\ uPc = "sleep"
    /\ curSleeps' = Append(curSleeps, delay)
    /\ delay' = NextDelay(delay)
    /\ attempt' = attempt + 1
    /\ uPc' = "attempt"
    /\ UNCHANGED <<points, uconfig, batch_idx, total_upserted, curLog, outcomes,
                   uResult>>
    /\ UNCHANGED <<cvars, evars, qvars, mvars, gvars>>


(***************************************************************************)
(* encode.py: the vocabulary cache (get_cached_token2id)                   *)
(***************************************************************************)

Threads == 1..NumThreads

\* The model identifiers callers pass as model_path.
ModelIds == 1..NumModels

\* The tokenizer objects callers pass; get_vocab() of each yields its own
\* vocabulary.
Tokenizers == {"tokA", "tokB"}

\* What one tokenizer.get_vocab() call can do.
LoadOutcomes == {"ok", "raises"}

\* Number of get_vocab() calls that have returned so far: every one of them
\* built a new dict object, told apart by `inst`.
RECURSIVE OkLoads(_)
OkLoads(m) ==
    IF m = 0 THEN 0
    ELSE Len(SelectSeq(loadLog[m], LAMBDA o : o = "ok")) + OkLoads(m - 1)

LoadsDone == OkLoads(NumModels)

\* tokenizer.get_vocab(): the dict object the call returns.
GetVocab(tokenizer) == [vocab |-> tokenizer, inst |-> LoadsDone + 1]

\* Variant: the lock is never waited for.
LockFree_Ignored == TRUE

\* `with _cache_lock:` can be entered.
LockFree == cache_lock = None

\* Variant: the membership test always misses.
CacheMiss_Always(model_path) == TRUE

\* model_path not in _token2id_cache
CacheMiss(model_path) == token2id_cache[model_path] = None

CacheIdle ==
    /\ token2id_cache = [m \in ModelIds |-> None]
    /\ cache_lock = None
    /\ tPc = [t \in Threads |-> "off"]
    /\ tArgs = [t \in Threads |-> [model_path |-> 1, tokenizer |-> "tokA"]]
    /\ tRet = [t \in Threads |-> None]
    /\ loadLog = [m \in ModelIds |-> << >>]
    /\ calls = 0

\* The module as imported: empty cache, free lock, every thread outside
\* get_cached_token2id.
CacheInit ==
    /\ token2id_cache = [m \in ModelIds |-> None]
    /\ cache_lock = None
    /\ tPc = [t \in Threads |-> "out"]
    /\ tArgs = [t \in Threads |-> [model_path |-> 1, tokenizer |-> "tokA"]]
    /\ tRet = [t \in Threads |-> None]
    /\ loadLog = [m \in ModelIds |-> << >>]
    /\ calls = 0

\* Thread t calls get_cached_token2id(model_path, tokenizer) and reaches the
\* with statement of line 58.
CacheCall(t, model_path, tokenizer) ==
    /\ tPc[t] = "out"
    /\ calls < MaxCalls
    /\ calls' = calls + 1
    /\ tPc' = [tPc EXCEPT ![t] = "with"]
    /\ tArgs' = [tArgs EXCEPT ![t] = [model_path |-> model_path,
                                       tokenizer |-> tokenizer]]
    /\ tRet' = [tRet EXCEPT ![t] = None]
    /\ UNCHANGED <<token2id_cache, cache_lock, loadLog>>
    /\ UNCHANGED <<uvars, evars, qvars, mvars, gvars>>

\* Line 58: the lock is acquired.
CacheAcquire(t) ==
    /\ tPc[t] = "with"
    /\ LockFree
    /\ cache_lock' = Some(t)
    /\ tPc' = [tPc EXCEPT ![t] = "check"]
    /\ UNCHANGED <<token2id_cache, tArgs, tRet, loadLog, calls>>
    /\ UNCHANGED <<uvars, evars, qvars, mvars, gvars>>

\* Line 59: the membership test.
CacheCheck(t) ==
    /\ tPc[t] = "check"
    /\ tPc' = [tPc EXCEPT ![t] = IF CacheMiss(tArgs[t].model_path)
                                   THEN "load" ELSE "return"]
    /\ UNCHANGED <<token2id_cache, cache_lock, tArgs, tRet, loadLog, calls>>
    /\ UNCHANGED <<uvars, evars, qvars, mvars, gvars>>

\* Variant: the lock is taken with acquire() and released only on the way
\* to the return statement, so an exception of get_vocab() leaves it held.
CacheLoad_KeepLockOnRaise(t, outcome) ==
    /\ tPc[t] = "load"
    /\ loadLog' = [loadLog EXCEPT ![tArgs[t].model_path] = Append(@, outcome)]
    /\ IF outcome = "ok"
         THEN /\ token2id_cache' = [token2id_cache EXCEPT ![tArgs[t].model_path] =
                                       Some(GetVocab(tArgs[t].tokenizer))]
              /\ tPc' = [tPc EXCEPT ![t] = "return"]
              /\ UNCHANGED <<cache_lock, tRet>>
         ELSE /\ tPc' = [tPc EXCEPT ![t] = "out"]
              /\ tRet' = [tRet EXCEPT ![t] = Some([raised |-> TRUE, table |-> None])]
              /\ UNCHANGED <<token2id_cache, cache_lock>>
    /\ UNCHANGED <<tArgs, calls>>
    /\ UNCHANGED <<uvars, evars, qvars, mvars, gvars>>

\* Line 60: tokenizer.get_vocab() is called and, when it returns, its value
\* stored; when it raises, the with statement releases the lock and the
\* exception leaves get_cached_token2id.
CacheLoad(t, outcome) ==
    /\ tPc[t] = "load"
    /\ loadLog' = [loadLog EXCEPT ![tArgs[t].model_path] = Append(@, outcome)]
    /\ IF outcome = "ok"
         THEN /\ token2id_cache' = [token2id_cache EXCEPT ![tArgs[t].model_path] =
                                       Some(GetVocab(tArgs[t].tokenizer))]
              /\ tPc' = [tPc EXCEPT ![t] = "return"]
              /\ UNCHANGED <<cache_lock, tRet>>
         ELSE /\ cache_lock' = None
              /\ tPc' = [tPc EXCEPT ![t] = "out"]
              /\ tRet' = [tRet EXCEPT ![t] = Some([raised |-> TRUE, table |-> None])]
              /\ UNCHANGED token2id_cache
    /\ UNCHANGED <<tArgs, calls>>
    /\ UNCHANGED <<uvars, evars, qvars, mvars, gvars>>

\* Line 62: the cached table is returned and the lock released.
CacheReturn(t) ==
    /\ tPc[t] = "return"
    /\ tRet' = [tRet EXCEPT ![t] =
                   Some([raised |-> FALSE,
                         table |-> token2id_cache[tArgs[t].model_path]])]
    /\ cache_lock' = None
    /\ tPc' = [tPc EXCEPT ![t] = "out"]
    /\ UNCHANGED <<token2id_cache, tArgs, loadLog, calls>>
    /\ UNCHANGED <<uvars, evars, qvars, mvars, gvars>>

NextCache ==
    \/ \E t \in Threads, m \in ModelIds, k \in Tokenizers : CacheCall(t, m, k)
    \/ \E t \in Threads : CacheAcquire(t)
    \/ \E t \in Threads : CacheCheck(t)
    \/ \E t \in Threads, o \in LoadOutcomes : CacheLoad(t, o)
    \/ \E t \in Threads : CacheReturn(t)


(***************************************************************************)
(* encode.py: _encode_batch_documents and encode_documents2points          *)
(***************************************************************************)

\* The document texts of the model.  The embedding model is a black box; of
\* its output for a text only one thing matters here: whether
\* _sparse_vector_to_point raises on it (a weight float() rejects, a value
\* PointStruct refuses).  It does for "x".
Texts == {"a", "b", "x"}

\* _sparse_vector_to_point raises for this document (lines 110-112).
ConversionRaises(text) == text = "x"

\* What one encoder.encode / to_sparse call can do.
ModelOutcomes == {"ok", "raises"}

\* The model identifier of the encoder: getattr(encoder, 'model_path', ...).
EncoderModelPath == CHOOSE m \in ModelIds : \A k \in ModelIds : m <= k

\* Variant: `break` written for `continue`: the documents after one whose
\* conversion raises are lost too.
RECURSIVE ConvertAll_StopAtFailure(_, _, _)
ConvertAll_StopAtFailure(batch, id_offset, i) ==
    IF i >= Len(batch) \/ ConversionRaises(batch[i + 1]) THEN << >>
    ELSE <<[id |-> id_offset + i, text |-> batch[i + 1]]>>
           \o ConvertAll_StopAtFailure(batch, id_offset, i + 1)

\* Lines 140-149: the loop over enumerate(zip(docs, sparse_vectors)) from
\* position i on: a document whose conversion raises is logged and skipped,
\* the others are appended with id = id_offset + i.
RECURSIVE ConvertAll(_, _, _)
ConvertAll(batch, id_offset, i) ==
    IF i >= Len(batch) THEN << >>
    ELSE (IF ConversionRaises(batch[i + 1])
            THEN << >>
            ELSE <<[id |-> id_offset + i, text |-> batch[i + 1]]>>)
           \o ConvertAll(batch, id_offset, i + 1)

\* _encode_batch_documents(encoder, docs, token2id, id_offset) when the model
\* call returns.
EncodeBatchDocuments(batch, id_offset) == ConvertAll(batch, id_offset, 0)

\* min(4, cpu_count()) on a machine with four cores or more.
DefaultWorkers == 4

\* Lines 186-192: the strategy.
ShouldParallelize(cfg, n) ==
    /\ cfg.use_parallel
    /\ n > cfg.parallel_threshold
    /\ cfg.max_workers # None

Sequential(cfg, n) == ~ShouldParallelize(cfg, n) \/ n <= cfg.parallel_threshold

\* num_workers = config.max_workers or min(4, cpu_count())
NumWorkersOf(cfg) ==
    IF cfg.max_workers # None /\ cfg.max_workers[1] # 0
      THEN cfg.max_workers[1] ELSE DefaultWorkers

\* chunk_size = max(1, len(docs) // (num_workers * 2))
ChunkSize(cfg, n) == Max(1, n \div (NumWorkersOf(cfg) * 2))

\* Lines 203-206: the chunks, as (chunk_docs, chunk_offset), by chunk index
\* 0, 1, ... (position k + 1 of the sequence holds chunk index k).
\* len(range(0, n, cs)): the number of chunks.
NumChunks(n, cs) == (n + cs - 1) \div cs

Chunks(ds, cs) ==
    [k \in 1..NumChunks(Len(ds), cs) |->
        [docs |-> Slice(ds, (k - 1) * cs, Min((k - 1) * cs + cs, Len(ds))),
         offset |-> (k - 1) * cs]]

TheChunks == Chunks(docs, ChunkSize(econfig, Len(docs)))

\* The chunk indices of the futures submitted (none before the submission).
ChunkIdx == DOMAIN futures

\* points_dict is a Python dict: its entries [chunk_idx, points] are kept in
\* insertion order.
Keys(dict) == {dict[i].chunk_idx : i \in 1..Len(dict)}

Lookup(dict, k) == (CHOOSE i \in 1..Len(dict) : dict[i].chunk_idx = k)

RECURSIVE SortedSeq(_)
\* sorted(S)
SortedSeq(S) ==
    IF S = {} THEN << >>
    ELSE LET m == CHOOSE x \in S : \A y \in S : x <= y
         IN  <<m>> \o SortedSeq(S \ {m})

RECURSIVE Extend(_, _, _)
\* points.extend(points_dict[chunk_idx]) for the keys of `order` from
\* position i on.
Extend(dict, order, i) ==
    IF i > Len(order) THEN << >>
    ELSE dict[Lookup(dict, order[i])].points \o Extend(dict, order, i + 1)

\* Variant: `for chunk_idx in points_dict` (insertion order), not sorted.
Reassembled_InsertionOrder(dict) ==
    Extend(dict, [i \in 1..Len(dict) |-> dict[i].chunk_idx], 1)

\* Lines 229-231: for chunk_idx in sorted(points_dict.keys()): extend.
Reassembled(dict) == Extend(dict, SortedSeq(Keys(dict)), 1)

\* The values of EncodingConfig.batch_size of the model: one document, and
\* the default.
EncodeBatchSizes == {1, 1000}

EncodeIdle ==
    /\ docs = << >>
    /\ econfig = [batch_size |-> 1, use_parallel |-> FALSE,
                  parallel_threshold |-> 0, max_workers |-> None]
    /\ ePc = "idle"
    /\ futures = << >>
    /\ futResult = << >>
    /\ points_dict = << >>
    /\ modelCalls = << >>
    /\ modelErrors = << >>
    /\ eCause = None
    /\ eResult = None

\* A call encode_documents2points(encoder, docs, config).
EncodeInit ==
    /\ \E n \in 0..MaxDocs : docs \in [1..n -> Texts]
    /\ econfig \in [batch_size : EncodeBatchSizes,
                    use_parallel : BOOLEAN,
                    parallel_threshold : 0..MaxThreshold,
                    max_workers : {None} \cup {Some(w) : w \in 1..MaxWorkers}]
    /\ ePc = "call"
    /\ futures = << >>
    /\ futResult = << >>
    /\ points_dict = << >>
    /\ modelCalls = << >>
    /\ modelErrors = << >>
    /\ eCause = None
    /\ eResult = None


\* The futures that have finished, either way.
Finished == {c \in ChunkIdx : futures[c] \in {"done", "failed"}}

Running == {c \in ChunkIdx : futures[c] = "running"}

\* Lines 174-206 and 211-216: the empty list returns [] at once; otherwise
\* the vocabulary comes from the cache (get_cached_token2id, run here by the
\* one calling thread), the strategy is chosen, and on the parallel path the
\* chunks are cut and every one of them submitted to the executor.
EncCall(loadOutcome) ==
    /\ ePc = "call"
    /\ IF docs = << >>
         THEN /\ loadOutcome = "ok"
              /\ ePc' = "done"
              /\ eResult' = Some(<< >>)
              /\ UNCHANGED <<token2id_cache, loadLog, futures, futResult>>
         ELSE /\ IF CacheMiss(EncoderModelPath)
                   THEN /\ loadLog' = [loadLog EXCEPT ![EncoderModelPath] =
                                          Append(@, loadOutcome)]
                        /\ token2id_cache' =
                             IF loadOutcome = "ok"
                               THEN [token2id_cache EXCEPT ![EncoderModelPath] =
                                        Some(GetVocab("tokA"))]
                               ELSE token2id_cache
                   ELSE /\ loadOutcome = "ok"
                        /\ UNCHANGED <<token2id_cache, loadLog>>
              /\ eResult' = eResult
              /\ IF loadOutcome # "ok"
                   THEN /\ ePc' = "raised"
                        /\ UNCHANGED <<futures, futResult>>
                   ELSE IF Sequential(econfig, Len(docs))
                   THEN /\ ePc' = "sequential"
                        /\ UNCHANGED <<futures, futResult>>
                   ELSE /\ ePc' = "parallel"
                        /\ futures' = [c \in 0..(Len(TheChunks) - 1) |-> "queued"]
                        /\ futResult' = [c \in 0..(Len(TheChunks) - 1) |-> None]
    /\ UNCHANGED <<docs, econfig, points_dict, modelCalls, eCause, modelErrors>>
    /\ UNCHANGED <<cache_lock, tPc, tArgs, tRet, calls>>
    /\ UNCHANGED <<uvars, qvars, mvars, gvars>>

\* Line 194: return _encode_batch_documents(encoder, docs, token2id, 0).  An
\* exception of the model call leaves encode_documents2points.
EncSequential(outcome) ==
    /\ ePc = "sequential"
    /\ modelCalls' = Append(modelCalls,
                       [path |-> "sequential", offset |-> 0, ndocs |-> Len(docs)])
    /\ IF outcome = "ok"
         THEN /\ ePc' = "done"
              /\ eResult' = Some(EncodeBatchDocuments(docs, 0))
         ELSE /\ ePc' = "raised"
              /\ eResult' = eResult
    /\ modelErrors' = IF outcome = "ok" THEN modelErrors ELSE Append(modelErrors, "sequential")
    /\ UNCHANGED <<docs, econfig, futures, futResult, points_dict, eCause>>
    /\ UNCHANGED <<cvars, uvars, qvars, mvars, gvars>>

\* A pool thread takes the oldest queued work item (the pool has at most
\* num_workers threads and a FIFO queue) and calls the model on its chunk.
\* The pool lives until the with statement has been left.
WorkerStart(c) ==
    /\ ePc \in {"parallel", "exit_pool"}
    /\ c \in ChunkIdx
    /\ futures[c] = "queued"
    /\ \A k \in ChunkIdx : k < c => futures[k] # "queued"
    /\ Cardinality(Running) < NumWorkersOf(econfig)
    /\ futures' = [futures EXCEPT ![c] = "running"]
    /\ modelCalls' = Append(modelCalls,
                       [path |-> "chunk", offset |-> TheChunks[c + 1].offset,
                        ndocs |-> Len(TheChunks[c + 1].docs)])
    /\ UNCHANGED <<docs, econfig, ePc, futResult, points_dict, eCause, eResult, modelErrors>>
    /\ UNCHANGED <<cvars, uvars, qvars, mvars, gvars>>

\* _encode_batch_documents ends in the pool thread: its list of points, or
\* the exception of the model call, becomes the state of the future.
WorkerFinish(c, outcome) ==
    /\ ePc \in {"parallel", "exit_pool"}
    /\ c \in ChunkIdx
    /\ futures[c] = "running"
    /\ futures' = [futures EXCEPT ![c] = IF outcome = "ok" THEN "done" ELSE "failed"]
    /\ futResult' = [futResult EXCEPT ![c] =
                        IF outcome = "ok"
                          THEN Some(EncodeBatchDocuments(TheChunks[c + 1].docs,
                                                         TheChunks[c + 1].offset))
                          ELSE None]
    /\ modelErrors' = IF outcome = "ok" THEN modelErrors ELSE Append(modelErrors, "chunk")
    /\ UNCHANGED <<docs, econfig, ePc, points_dict, modelCalls, eCause, eResult>>
    /\ UNCHANGED <<cvars, uvars, qvars, mvars, gvars>>

\* Variant: a chunk whose future failed is submitted to the pool again.
Collect_ResubmitFailed(c) ==
    /\ ePc = "parallel"
    /\ c \in Finished
    /\ c \notin Keys(points_dict)
    /\ IF futures[c] = "done"
         THEN /\ points_dict' = Append(points_dict,
                                  [chunk_idx |-> c, points |-> futResult[c][1]])
              /\ UNCHANGED futures
         ELSE /\ futures' = [futures EXCEPT ![c] = "queued"]
              /\ UNCHANGED points_dict
    /\ UNCHANGED <<docs, econfig, ePc, eCause, futResult, modelCalls, eResult, modelErrors>>
    /\ UNCHANGED <<cvars, uvars, qvars, mvars, gvars>>

\* Lines 219-226: as_completed hands over a finished future not handed over
\* before; its result goes into points_dict under its chunk index, or its
\* exception is re-raised out of the with statement.
Collect(c) ==
    /\ ePc = "parallel"
    /\ c \in Finished
    /\ c \notin Keys(points_dict)
    /\ IF futures[c] = "done"
         THEN /\ points_dict' = Append(points_dict,
                                  [chunk_idx |-> c, points |-> futResult[c][1]])
              /\ UNCHANGED <<ePc, eCause>>
         ELSE /\ ePc' = "exit_pool"
              /\ eCause' = Some("chunk_failed")
              /\ UNCHANGED points_dict
    /\ UNCHANGED <<docs, econfig, futures, futResult, modelCalls, eResult, modelErrors>>
    /\ UNCHANGED <<cvars, uvars, qvars, mvars, gvars>>

\* Line 219: as_completed raises TimeoutError when timeout_seconds have gone
\* by and futures are still to be handed over.
Timeout ==
    /\ ePc = "parallel"
    /\ Keys(points_dict) # ChunkIdx
    /\ ePc' = "exit_pool"
    /\ eCause' = Some("timeout")
    /\ UNCHANGED <<docs, econfig, futures, futResult, points_dict, modelCalls,
                   eResult, modelErrors>>
    /\ UNCHANGED <<cvars, uvars, qvars, mvars, gvars>>

\* Lines 227-234: every future was handed over; the with statement is left
\* (nothing is running any more) and the chunks are joined.
Reassemble ==
    /\ ePc = "parallel"
    /\ Keys(points_dict) = ChunkIdx
    /\ ePc' = "done"
    /\ eResult' = Some(Reassembled(points_dict))
    /\ UNCHANGED <<docs, econfig, futures, futResult, points_dict, modelCalls,
                   eCause, modelErrors>>
    /\ UNCHANGED <<cvars, uvars, qvars, mvars, gvars>>

\* Line 211, leaving the with statement on an exception:
\* ThreadPoolExecutor.__exit__ is shutdown(wait=True), which returns once
\* every submitted work item has run to its end.  Then line 236 catches.
PoolExit ==
    /\ ePc = "exit_pool"
    /\ Finished = ChunkIdx
    /\ ePc' = "fallback"
    /\ UNCHANGED <<docs, econfig, futures, futResult, points_dict, modelCalls,
                   eCause, eResult, modelErrors>>
    /\ UNCHANGED <<cvars, uvars, qvars, mvars, gvars>>

\* Variant: the fallback's records are added to those of the chunks
\* collected before the failure.
FallbackRecords_KeepCollected(ds, dict) ==
    Reassembled(dict) \o EncodeBatchDocuments(ds, 0)

\* Line 240: what the fallback returns when its model call succeeds:
\* _encode_batch_documents over all of docs from id 0; points_dict is not
\* read.
FallbackRecords(ds, dict) == EncodeBatchDocuments(ds, 0)

\* Variant: when the model call of the fallback raises, the chunks collected
\* so far are returned.
EncFallback_PartialOnFailure(outcome) ==
    /\ ePc = "fallback"
    /\ modelCalls' = Append(modelCalls,
                       [path |-> "fallback", offset |-> 0, ndocs |-> Len(docs)])
    /\ ePc' = "done"
    /\ eResult' = IF outcome = "ok"
                    THEN Some(FallbackRecords(docs, points_dict))
                    ELSE Some(Reassembled(points_dict))
    /\ modelErrors' = IF outcome = "ok" THEN modelErrors ELSE Append(modelErrors, "fallback")
    /\ UNCHANGED <<docs, econfig, futures, futResult, points_dict, eCause>>
    /\ UNCHANGED <<cvars, uvars, qvars, mvars, gvars>>

\* Line 240: return _encode_batch_documents(encoder, docs, token2id, 0); an
\* exception of this model call leaves encode_documents2points.
EncFallback(outcome) ==
    /\ ePc = "fallback"
    /\ modelCalls' = Append(modelCalls,
                       [path |-> "fallback", offset |-> 0, ndocs |-> Len(docs)])
    /\ IF outcome = "ok"
         THEN /\ ePc' = "done"
              /\ eResult' = Some(FallbackRecords(docs, points_dict))
         ELSE /\ ePc' = "raised"
              /\ eResult' = eResult
    /\ modelErrors' = IF outcome = "ok" THEN modelErrors ELSE Append(modelErrors, "fallback")
    /\ UNCHANGED <<docs, econfig, futures, futResult, points_dict, eCause>>
    /\ UNCHANGED <<cvars, uvars, qvars, mvars, gvars>>

NextEncode ==
    \/ \E o \in LoadOutcomes : EncCall(o)
    \/ \E o \in ModelOutcomes : EncSequential(o)
    \/ \E c \in ChunkIdx : WorkerStart(c)
    \/ \E c \in ChunkIdx, o \in ModelOutcomes : WorkerFinish(c, o)
    \/ \E c \in ChunkIdx : Collect(c)
    \/ Timeout
    \/ Reassemble
    \/ PoolExit
    \/ \E o \in ModelOutcomes : EncFallback(o)


(***************************************************************************)
(* encode.py: _sparse_vector_to_point and encode_query2vector              *)
(***************************************************************************)

\* Tokens the model can emit, and what it emits as a weight: a number in
\* some representation, or something float() rejects.
Tokens == {"t1", "t2", "t3"}

WeightReprs == {"1", "0.5", "bad"}

\* float(weight), in tenths; float() raises on what is not in the domain.
FloatOf == [w \in {"1", "0.5"} |-> IF w = "1" THEN 10 ELSE 5]

TokenIds == {0, 1, 2}

\* The sparse_vector dicts: distinct tokens, in their iteration order.
SparseVectors ==
    UNION {{sv \in [1..n -> [token : Tokens, weight : WeightReprs]] :
              \A i, j \in 1..n : sv[i].token = sv[j].token => i = j}
           : n \in 0..MaxVectorLen}

\* The token2id tables: a part of the tokens, each with an id of its own.
Vocabularies ==
    UNION {{f \in [S -> TokenIds] : \A s, t \in S : f[s] = f[t] => s = t}
           : S \in SUBSET Tokens}

Chars == {" ", "\t", "a"}

Whitespace == {" ", "\t"}

Queries == UNION {[1..n -> Chars] : n \in 0..MaxQueryLen}

\* str.strip(): the string without its leading and trailing whitespace.
RECURSIVE LStrip(_)
LStrip(s) == IF s # << >> /\ Head(s) \in Whitespace THEN LStrip(Tail(s)) ELSE s

RECURSIVE RStrip(_)
RStrip(s) ==
    IF s # << >> /\ s[Len(s)] \in Whitespace
      THEN RStrip(SubSeq(s, 1, Len(s) - 1))
      ELSE s

Strip(s) == RStrip(LStrip(s))

\* Variant: the check tests only the emptiness of the string.
QueryRejected_EmptyOnly(q) == q = << >>

\* Line 302: not query or not query.strip()
QueryRejected(q) == q = << >> \/ Strip(q) = << >>

\* Variant: an unknown token is a KeyError, as the docstring has it.
OnUnknownToken_KeyError(acc) == [acc EXCEPT !.raised = TRUE]

\* Lines 91-93 and 317-319: the token is not in token2id: log, continue.
OnUnknownToken(acc) == acc

\* Lines 94-95 and 320-321: indices.append(token2id[token]);
\* values.append(float(weight)), float() raising on a weight it rejects.
OnKnownToken(acc, id, weight) ==
    IF weight \in DOMAIN FloatOf
      THEN [acc EXCEPT !.indices = Append(@, id),
                       !.values = Append(@, FloatOf[weight])]
      ELSE [acc EXCEPT !.raised = TRUE]

\* Lines 90-95 and 316-321: the loop over sparse_vector.items() from entry i
\* on; an exception ends it.
RECURSIVE ConvertItems(_, _, _, _)
ConvertItems(sv, table, i, acc) ==
    IF i > Len(sv) \/ acc.raised THEN acc
    ELSE ConvertItems(sv, table, i + 1,
           IF sv[i].token \notin DOMAIN table
             THEN OnUnknownToken(acc)
             ELSE OnKnownToken(acc, table[sv[i].token], sv[i].weight))

\* Lines 87-95 and 313-321: indices = [], values = [], then the loop.
Converted(sv, table) ==
    ConvertItems(sv, table, 1, [raised |-> FALSE, indices |-> << >>, values |-> << >>])

\* Variant: the payload never carries the marker.
Payload_NoMarker(text, indices) == [text |-> text, error |-> None]

\* Lines 97-109: the payload is {"text": doc}, with "error":
\* "no_valid_tokens" added when indices is empty.
Payload(text, indices) ==
    [text |-> text,
     error |-> IF indices = << >> THEN Some("no_valid_tokens") ELSE None]

\* Lines 97-109: the PointStruct returned for the converted lists.
PointStruct(id, text, conv) ==
    [id |-> id, payload |-> Payload(text, conv.indices),
     indices |-> conv.indices, values |-> conv.values]

ConvertIdle ==
    /\ doc_id = 0
    /\ doc = "a"
    /\ sparse_vector = << >>
    /\ token2id = << >>
    /\ pPc = "off"
    /\ pRet = None
    /\ query = << >>
    /\ qPc = "off"
    /\ query_sparse_vector = None
    /\ qLog = << >>
    /\ qRet = None

\* A call _sparse_vector_to_point(doc, sparse_vector, token2id, doc_id).
PointCallInit ==
    /\ doc_id \in {0, 1}
    /\ doc \in {"a", "b"}
    /\ sparse_vector \in SparseVectors
    /\ token2id \in Vocabularies
    /\ pPc = "call"
    /\ pRet = None
    /\ query = << >>
    /\ qPc = "off"
    /\ query_sparse_vector = None
    /\ qLog = << >>
    /\ qRet = None

\* A call encode_query2vector(encoder, query); token2id is the vocabulary
\* encoder.tokenizer holds.
QueryCallInit ==
    /\ doc_id = 0
    /\ doc = "a"
    /\ sparse_vector = << >>
    /\ token2id \in Vocabularies
    /\ pPc = "off"
    /\ pRet = None
    /\ query \in Queries
    /\ qPc = "call"
    /\ query_sparse_vector = None
    /\ qLog = << >>
    /\ qRet = None

\* Lines 86-112: _sparse_vector_to_point from call to return; an exception
\* is logged and raised again.
SparseVectorToPoint ==
    /\ pPc = "call"
    /\ LET conv == Converted(sparse_vector, token2id) IN
         IF conv.raised
           THEN /\ pPc' = "raised"
                /\ pRet' = pRet
           ELSE /\ pPc' = "done"
                /\ pRet' = Some(PointStruct(doc_id, doc, conv))
    /\ UNCHANGED <<doc_id, doc, sparse_vector, token2id>>
    /\ UNCHANGED <<query, qPc, query_sparse_vector, qLog, qRet>>
    /\ UNCHANGED <<uvars, cvars, evars, mvars, gvars>>

\* Lines 302-306: the empty query is refused with ValueError; otherwise the
\* vocabulary comes from the cache (get_cached_token2id, run here by the one
\* calling thread), whose loader may raise.
QueryCall(loadOutcome) ==
    /\ qPc = "call"
    /\ IF QueryRejected(query)
         THEN /\ loadOutcome = "ok"
              /\ qPc' = "raised"
              /\ qRet' = Some([raised |-> "ValueError", vector |-> None])
              /\ UNCHANGED <<token2id_cache, loadLog, qLog>>
         ELSE /\ qLog' = Append(qLog, "get_cached_token2id")
              /\ IF CacheMiss(EncoderModelPath)
                   THEN /\ loadLog' = [loadLog EXCEPT ![EncoderModelPath] =
                                          Append(@, loadOutcome)]
                        /\ token2id_cache' =
                             IF loadOutcome = "ok"
                               THEN [token2id_cache EXCEPT ![EncoderModelPath] =
                                        Some(GetVocab("tokA"))]
                               ELSE token2id_cache
                   ELSE /\ loadOutcome = "ok"
                        /\ UNCHANGED <<token2id_cache, loadLog>>
              /\ IF loadOutcome = "ok"
                   THEN /\ qPc' = "encode"
                        /\ qRet' = qRet
                   ELSE /\ qPc' = "raised"
                        /\ qRet' = Some([raised |-> "LoaderError", vector |-> None])
    /\ UNCHANGED <<query, query_sparse_vector>>
    /\ UNCHANGED <<doc_id, doc, sparse_vector, token2id, pPc, pRet>>
    /\ UNCHANGED <<cache_lock, tPc, tArgs, tRet, calls>>
    /\ UNCHANGED <<uvars, evars, mvars, gvars>>

\* Lines 308-328: the model is called on [query]; its sparse output is
\* converted by the same loop; any exception inside the try block leaves as
\* RuntimeError.
QueryEncode(outcome, sv) ==
    /\ qPc = "encode"
    /\ qLog' = Append(qLog, "encode")
    /\ IF outcome = "ok"
         THEN /\ query_sparse_vector' = Some(sv)
              /\ LET conv == Converted(sv, token2id) IN
                   IF conv.raised
                     THEN /\ qPc' = "raised"
                          /\ qRet' = Some([raised |-> "RuntimeError", vector |-> None])
                     ELSE /\ qPc' = "done"
                          /\ qRet' = Some([raised |-> "",
                                           vector |-> Some([indices |-> conv.indices,
                                                            values |-> conv.values])])
         ELSE /\ sv = << >>
              /\ query_sparse_vector' = query_sparse_vector
              /\ qPc' = "raised"
              /\ qRet' = Some([raised |-> "RuntimeError", vector |-> None])
    /\ UNCHANGED <<query>>
    /\ UNCHANGED <<doc_id, doc, sparse_vector, token2id, pPc, pRet>>
    /\ UNCHANGED <<uvars, cvars, evars, mvars, gvars>>

NextConvert ==
    \/ SparseVectorToPoint
    \/ \E o \in LoadOutcomes : QueryCall(o)
    \/ \E o \in ModelOutcomes, sv \in SparseVectors : QueryEncode(o, sv)


(***************************************************************************)
(* main.py: SparseSearchEngine.upsert_documents                            *)
(***************************************************************************)

\* EncodingConfig(): what encode_documents2points works with when it is
\* called without a config, as upsert_documents calls it.
DefaultEncodingConfig ==
    [batch_size |-> 1000, use_parallel |-> TRUE, parallel_threshold |-> 100,
     max_workers |-> None]

MainIdle ==
    /\ documents = << >>
    /\ is_initialized = FALSE
    /\ mPc = "idle"
    /\ storeWrites = << >>
    /\ mRet = None

\* A call engine.upsert_documents(documents).
MainInit ==
    /\ \E n \in 0..MaxDocs : documents \in [1..n -> Texts]
    /\ is_initialized \in BOOLEAN
    /\ mPc = "call"
    /\ storeWrites = << >>
    /\ mRet = None

\* Lines 153-162: RuntimeError for an engine that is not initialized, 0 for
\* no documents; otherwise encode_documents2points(self.encoder, documents)
\* is called.
MainCall ==
    /\ mPc = "call"
    /\ IF ~is_initialized
         THEN /\ mPc' = "raised"
              /\ mRet' = mRet
              /\ UNCHANGED <<docs, econfig, ePc>>
         ELSE IF documents = << >>
         THEN /\ mPc' = "done"
              /\ mRet' = Some(0)
              /\ UNCHANGED <<docs, econfig, ePc>>
         ELSE /\ mPc' = "encode"
              /\ mRet' = mRet
              /\ docs' = documents
              /\ econfig' = DefaultEncodingConfig
              /\ ePc' = "call"
    /\ UNCHANGED <<documents, is_initialized, storeWrites>>
    /\ UNCHANGED <<futures, futResult, points_dict, modelCalls, modelErrors,
                   eCause, eResult>>
    /\ UNCHANGED <<uvars, cvars, qvars, gvars>>

\* Variant: a failed write is logged and the count is returned all the same.
MainUpsert_SwallowFailure(outcome) ==
    /\ mPc = "encode"
    /\ ePc = "done"
    /\ storeWrites' = Append(storeWrites, [points |-> eResult[1], outcome |-> outcome])
    /\ mPc' = "done"
    /\ mRet' = Some(Len(eResult[1]))
    /\ UNCHANGED <<documents, is_initialized>>
    /\ UNCHANGED <<uvars, cvars, evars, qvars, gvars>>

\* Lines 164-174: encode_documents2points returned points; one
\* client.upsert call sends them all; len(points) is returned, or the
\* exception of the write is logged and raised again.
MainUpsert(outcome) ==
    /\ mPc = "encode"
    /\ ePc = "done"
    /\ storeWrites' = Append(storeWrites, [points |-> eResult[1], outcome |-> outcome])
    /\ IF outcome = "ok"
         THEN /\ mPc' = "done"
              /\ mRet' = Some(Len(eResult[1]))
         ELSE /\ mPc' = "raised"
              /\ mRet' = mRet
    /\ UNCHANGED <<documents, is_initialized>>
    /\ UNCHANGED <<uvars, cvars, evars, qvars, gvars>>

\* Variant: the exception of the encoder is logged and 0 is returned.
MainEncodeFailed_ReturnsZero ==
    /\ mPc = "encode"
    /\ ePc = "raised"
    /\ mPc' = "done"
    /\ mRet' = Some(0)
    /\ UNCHANGED <<documents, is_initialized, storeWrites>>
    /\ UNCHANGED <<uvars, cvars, evars, qvars, gvars>>

\* Lines 162 and 172-174: encode_documents2points raised; the exception is
\* logged and raised again, the write of line 165 is not reached.
MainEncodeFailed ==
    /\ mPc = "encode"
    /\ ePc = "raised"
    /\ mPc' = "raised"
    /\ UNCHANGED <<documents, is_initialized, storeWrites, mRet>>
    /\ UNCHANGED <<uvars, cvars, evars, qvars, gvars>>

\* upsert_documents and, inside it, the encoder on the path the default
\* configuration gives.
NextMain ==
    \/ MainCall
    \/ \E o \in LoadOutcomes : EncCall(o)
    \/ \E o \in ModelOutcomes : EncSequential(o)
    \/ \E o \in WriteOutcomes : MainUpsert(o)
    \/ MainEncodeFailed


(***************************************************************************)
(* encode.py: encode_documents2points_batched                              *)
(***************************************************************************)

\* The values of id_offset of the model.
IdOffsets == {0, 10}

BatchedIdle ==
    /\ gArgs = [docs |-> << >>, batch_size |-> 1, id_offset |-> 0]
    /\ gPc = "idle"
    /\ batch_start = 0
    /\ yielded = << >>
    /\ gCalls = << >>

\* A generator encode_documents2points_batched(encoder, docs, batch_size,
\* id_offset) that is being iterated.
BatchedInit ==
    /\ \E n \in 0..MaxDocs :
         gArgs \in [docs : [1..n -> Texts], batch_size : 1..MaxBatchSize,
                    id_offset : IdOffsets]
    /\ gPc = "call"
    /\ batch_start = 0
    /\ yielded = << >>
    /\ gCalls = << >>

\* Lines 263-270, at the first next(): the vocabulary comes from the cache
\* (get_cached_token2id, run here by the one calling thread, its loader
\* possibly raising); then the empty list ends the generator, any other
\* list starts the loop.
BatchedCall(loadOutcome) ==
    /\ gPc = "call"
    /\ IF CacheMiss(EncoderModelPath)
         THEN /\ loadLog' = [loadLog EXCEPT ![EncoderModelPath] =
                                Append(@, loadOutcome)]
              /\ token2id_cache' =
                   IF loadOutcome = "ok"
                     THEN [token2id_cache EXCEPT ![EncoderModelPath] =
                              Some(GetVocab("tokA"))]
                     ELSE token2id_cache
         ELSE /\ loadOutcome = "ok"
              /\ UNCHANGED <<token2id_cache, loadLog>>
    /\ gPc' = IF loadOutcome # "ok" THEN "raised"
              ELSE IF gArgs.docs = << >> THEN "done"
              ELSE "loop"
    /\ UNCHANGED <<gArgs, batch_start, yielded, gCalls>>
    /\ UNCHANGED <<cache_lock, tPc, tArgs, tRet, calls>>
    /\ UNCHANGED <<uvars, evars, qvars, mvars>>

\* Variant: the ids of every batch start at id_offset.
BatchOffset_Constant(id_offset, start) == id_offset

\* Line 275: batch_offset = id_offset + batch_start
BatchOffset(id_offset, start) == id_offset + start

\* Lines 270-284, one turn of the loop: the batch is cut, encoded with
\* id_offset = batch_offset and yielded; an exception of
\* _encode_batch_documents is logged and raised again.
BatchedNext(outcome) ==
    /\ gPc = "loop"
    /\ batch_start < Len(gArgs.docs)
    /\ LET batch_end == Min(batch_start + gArgs.batch_size, Len(gArgs.docs))
           batch_docs == Slice(gArgs.docs, batch_start, batch_end)
           batch_offset == BatchOffset(gArgs.id_offset, batch_start)
       IN  /\ gCalls' = Append(gCalls, [offset |-> batch_offset,
                                        ndocs |-> Len(batch_docs)])
           /\ IF outcome = "ok"
                THEN /\ yielded' = Append(yielded,
                                     [batch_offset |-> batch_offset,
                                      batch_points |->
                                        EncodeBatchDocuments(batch_docs, batch_offset)])
                     /\ batch_start' = batch_start + gArgs.batch_size
                     /\ gPc' = gPc
                ELSE /\ gPc' = "raised"
                     /\ UNCHANGED <<yielded, batch_start>>
    /\ UNCHANGED gArgs
    /\ UNCHANGED <<uvars, cvars, evars, qvars, mvars>>

\* Line 270: range(0, len(docs), batch_size) is used up; the generator ends.
BatchedEnd ==
    /\ gPc = "loop"
    /\ batch_start >= Len(gArgs.docs)
    /\ gPc' = "done"
    /\ UNCHANGED <<gArgs, batch_start, yielded, gCalls>>
    /\ UNCHANGED <<uvars, cvars, evars, qvars, mvars>>

NextBatched ==
    \/ \E o \in LoadOutcomes : BatchedCall(o)
    \/ \E o \in ModelOutcomes : BatchedNext(o)
    \/ BatchedEnd


(***************************************************************************)
(* The specifications: one per component, the other components idle.       *)
(***************************************************************************)

NextUpsert ==
    \/ UpsertCall
    \/ BatchBegin
    \/ UpsertReturn
    \/ \E o \in WriteOutcomes : Attempt(o)
    \/ Sleep

InitUpsert == UpsertInit /\ CacheIdle /\ EncodeIdle /\ ConvertIdle /\ MainIdle /\ BatchedIdle

SpecUpsert == InitUpsert /\ [][NextUpsert]_vars

InitCache == CacheInit /\ UpsertIdle /\ EncodeIdle /\ ConvertIdle /\ MainIdle /\ BatchedIdle

SpecCache == InitCache /\ [][NextCache]_vars

\* A thread that is inside get_cached_token2id goes on running: it takes
\* the lock when the lock stays free, and the get_vocab() call it makes
\* comes to an end.
ThreadStep(t) ==
    \/ CacheAcquire(t)
    \/ CacheCheck(t)
    \/ \E o \in LoadOutcomes : CacheLoad(t, o)
    \/ CacheReturn(t)

SpecCacheFair == SpecCache /\ \A t \in Threads : WF_vars(ThreadStep(t))

InitEncode == EncodeInit /\ CacheIdle /\ UpsertIdle /\ ConvertIdle /\ MainIdle /\ BatchedIdle

SpecEncode == InitEncode /\ [][NextEncode]_vars

\* The calls of encode_documents2points whose config keeps the default
\* batch_size of line 23, a field the function does not read.
InitEncodeDefault == InitEncode /\ econfig.batch_size = DefaultEncodingConfig.batch_size

SpecEncodeDefault == InitEncodeDefault /\ [][NextEncode]_vars

InitConvert ==
    /\ (PointCallInit \/ QueryCallInit)
    /\ CacheIdle /\ UpsertIdle /\ EncodeIdle /\ MainIdle /\ BatchedIdle

SpecConvert == InitConvert /\ [][NextConvert]_vars

InitMain == MainInit /\ EncodeIdle /\ CacheIdle /\ UpsertIdle /\ ConvertIdle /\ BatchedIdle

SpecMain == InitMain /\ [][NextMain]_vars

InitBatched ==
    BatchedInit /\ EncodeIdle /\ CacheIdle /\ UpsertIdle /\ ConvertIdle /\ MainIdle

SpecBatched == InitBatched /\ [][NextBatched]_vars

\* The two functions that encode a list of documents.
SpecEncoders == (InitEncode \/ InitBatched) /\ [][NextEncode \/ NextBatched]_vars

Init == InitUpsert \/ InitCache \/ InitEncode \/ InitConvert \/ InitMain \/ InitBatched

Next ==
    NextUpsert \/ NextCache \/ NextEncode \/ NextConvert \/ NextMain \/ NextBatched

Spec == Init /\ [][Next]_vars


(***************************************************************************)
(* Properties of the batch writer.                                         *)
(***************************************************************************)

\* ceil(n / b), as the least k with k * b >= n.
Ceil(n, b) == CHOOSE k \in 0..n : k * b >= n /\ \A j \in 0..(k - 1) : j * b < n

\* The batches _upsert_batch_with_retry has been left with, by position.
Left == 1..Len(outcomes)

\* The batch at position i ended without a successful write.
BatchFailed(i) == ~outcomes[i].written

\* Sizes of the batches whose write succeeded.
WrittenSizes == [i \in Left |-> IF outcomes[i].written THEN Len(outcomes[i].batch) ELSE 0]

\* Ascending indices of the batches that ended without a successful write.
FailedBatches == SelectSeq([i \in Left |-> outcomes[i].batch_index],
                           LAMBDA b : BatchFailed(b + 1))

C4_Backoff ==
    /\ \A k \in 1..Len(curSleeps) :
           curSleeps[k] = uconfig.retry_delay_seconds * Pow2(k - 1)
    /\ Len(curSleeps) <= Max(uconfig.max_retries - 1, 0)
    /\ uPc = "attempt" => Len(curSleeps) = attempt - 1 /\ Len(curLog) = attempt - 1
    /\ uPc = "sleep" => Len(curSleeps) = attempt - 1 /\ Len(curLog) = attempt
    /\ Len(curLog) <= uconfig.max_retries
    /\ \A i \in Left : /\ outcomes[i].attempts <= uconfig.max_retries
                       /\ BatchFailed(i) => outcomes[i].attempts = uconfig.max_retries

\* C4 witness: a batch has just failed its third and last attempt after
\* sleeping retry_delay_seconds (3) and then twice that (6).
C4_Witness ==
    /\ uPc = "loop"
    /\ uconfig.max_retries = 3
    /\ Len(curLog) = 3
    /\ \A k \in 1..3 : curLog[k].outcome = "transient"
    /\ curSleeps = <<uconfig.retry_delay_seconds, 2 * uconfig.retry_delay_seconds>>
    /\ uconfig.retry_delay_seconds = 3

\* C5: after a permanent error on an attempt of a batch, that batch gets no
\* further attempt and no sleep, even when attempts remain.
C5_PermanentFailsFast ==
    \A i \in 1..Len(curLog) :
        curLog[i].outcome = "permanent" =>
            /\ i = Len(curLog)
            /\ Len(curSleeps) < i
            /\ uPc # "sleep"

C7_PartitionExact ==
    LET n == Len(points)
        b == uconfig.batch_size
        sizes == [i \in Left |-> Len(outcomes[i].batch)]
    IN  /\ \A i \in Left :
              /\ outcomes[i].batch = [j \in 1..Len(outcomes[i].batch) |->
                                         points[(i - 1) * b + j]]
              /\ i < Ceil(n, b) => Len(outcomes[i].batch) = b
              /\ i = Ceil(n, b) =>
                     Len(outcomes[i].batch) = (IF n % b = 0 THEN b ELSE n % b)
        /\ Len(outcomes) <= Ceil(n, b)
        /\ (uPc = "done" /\ n >= 1) =>
              /\ Len(outcomes) = Ceil(n, b)
              /\ SumSeq(sizes) = n
              /\ (\A i \in Left : outcomes[i].written /\ outcomes[i].attempts = 1) =>
                     /\ SumSeq([i \in Left |-> outcomes[i].attempts]) = Ceil(n, b)
                     /\ uResult = Some(n)

\* C7 witness: five points in batches of two (2, 2, 1), each written on its
\* first attempt, total 5.
C7_Witness ==
    /\ uPc = "done"
    /\ Len(points) = 5
    /\ uconfig.batch_size = 2
    /\ [i \in Left |-> Len(outcomes[i].batch)] = <<2, 2, 1>>
    /\ \A i \in Left : outcomes[i].written /\ outcomes[i].attempts = 1
    /\ uResult = Some(5)

\* C8 (as amended): the returned value is the integer total alone; it is at
\* most the number of points and equals it if and only if no batch failed.
C8_TotalBound ==
    uPc = "done" =>
        /\ uResult # None
        /\ uResult[1] <= Len(points)
        /\ (uResult[1] = Len(points)) <=> (FailedBatches = << >>)

\* C8 witness: a call returned with fewer points written than given, with
\* a failed batch between two written ones.
C8_Witness ==
    /\ uPc = "done"
    /\ Len(outcomes) = 3
    /\ outcomes[1].written /\ BatchFailed(2) /\ outcomes[3].written
    /\ uResult[1] < Len(points)

\* C8 (as stated): the result satisfies the bounds above and reports
\* failed_batches, the ordered indices of the batches that failed.
C8_ReportsFailedBatches ==
    uPc = "done" =>
        /\ Reported(uResult, "total_upserted") # None
        /\ Reported(uResult, "total_upserted")[1] <= Len(points)
        /\ (Reported(uResult, "total_upserted")[1] = Len(points))
               <=> (FailedBatches = << >>)
        /\ Reported(uResult, "failed_batches") = Some(FailedBatches)

\* C9: the count _upsert_batch_with_retry reports for a batch is 0 or the
\* size of the batch, for every configuration with max_retries >= 0.
C9_AllOrNothing ==
    \A i \in Left :
        outcomes[i].upserted \in {Some(0), Some(Len(outcomes[i].batch))}

(***************************************************************************)
(* Properties of the vocabulary cache.                                     *)
(***************************************************************************)

\* Number of get_vocab() calls made for model_path m that returned.
OkCount(m) == Len(SelectSeq(loadLog[m], LAMBDA o : o = "ok"))

\* Thread t is outside the function, its last call was for m and returned.
ReturnedFor(t, m) ==
    /\ tPc[t] = "out"
    /\ tRet[t] # None
    /\ ~tRet[t][1].raised
    /\ tArgs[t].model_path = m

\* C2 (as stated): under any interleaving the loader is invoked at most once
\* per model identifier, and exactly once for an identifier a call has
\* returned for.
C2_LoaderInvokedOnce ==
    \A m \in ModelIds :
        /\ Len(loadLog[m]) <= 1
        /\ (\E t \in Threads : ReturnedFor(t, m)) => Len(loadLog[m]) = 1

\* C2 (as amended): under any interleaving, for every model identifier, at
\* most one loader invocation returns, no invocation follows it (the earlier
\* ones all raised), the cache holds the identifier exactly when that
\* invocation has happened, and a call that returned for the identifier
\* found exactly one successful load.
C2_SingleSuccessfulLoad ==
    \A m \in ModelIds :
        /\ \A i \in 1..(Len(loadLog[m]) - 1) : loadLog[m][i] = "raises"
        /\ OkCount(m) <= 1
        /\ (token2id_cache[m] # None) <=> (OkCount(m) = 1)
        /\ (\E t \in Threads : ReturnedFor(t, m)) => OkCount(m) = 1

\* C2 witness: two threads are inside get_cached_token2id for the same
\* identifier at once; one has loaded the table (after an earlier load
\* raised) and still holds the lock, the other waits for it.
C2_Witness ==
    \E t, u \in Threads, m \in ModelIds :
        /\ t # u
        /\ tArgs[t].model_path = m /\ tArgs[u].model_path = m
        /\ tPc[t] = "return" /\ tPc[u] = "with"
        /\ loadLog[m] = <<"raises", "ok">>

(***************************************************************************)
(* Properties of the encoder.                                              *)
(***************************************************************************)

\* encode_documents2points returned from its parallel path: every chunk
\* future succeeded and was collected.
ParallelDone == ePc = "done" /\ futures # << >> /\ eCause = None

\* The chunk indices in the order the futures were handed over.
CollectOrder == [i \in 1..Len(points_dict) |-> points_dict[i].chunk_idx]

\* The input documents whose conversion does not raise, as records, in
\* input order.
Surviving ==
    SelectSeq([i \in 1..Len(docs) |-> [id |-> i - 1, text |-> docs[i]]],
              LAMBDA r : ~ConversionRaises(r.text))

\* C1 (as stated): on the parallel path with every chunk succeeding,
\* record[i].text == documents[i] for every i.
C1_RecordMatchesDocument ==
    ParallelDone =>
        \A i \in 1..Len(eResult[1]) : eResult[1][i].text = docs[i]

\* C1 (as amended): on the parallel path with every chunk succeeding, the
\* records come back in input order whatever order the futures completed
\* in: ids strictly ascend and every record carries the text of the
\* document at its id; record[i].text == documents[i] for every i when no
\* document's conversion raised.
C1_OrderPreserved ==
    ParallelDone =>
        LET r == eResult[1]
        IN  /\ \A i \in 1..Len(r) : r[i].text = docs[r[i].id + 1]
            /\ \A i, j \in 1..Len(r) : i < j => r[i].id < r[j].id
            /\ (\A i \in 1..Len(docs) : ~ConversionRaises(docs[i])) =>
                   /\ Len(r) = Len(docs)
                   /\ \A i \in 1..Len(docs) : r[i].text = docs[i]

\* C1 witness: the parallel path returned three records for three documents
\* (two of them with different texts) whose chunks were handed over out of
\* index order.
C1_Witness ==
    /\ ParallelDone
    /\ Len(docs) = 3
    /\ docs[1] # docs[3]
    /\ \A i \in 1..3 : ~ConversionRaises(docs[i])
    /\ CollectOrder = <<2, 0, 1>>
    /\ Len(eResult[1]) = 3

\* C10 (as stated): a call that returns yields exactly one record per input
\* document.
C10_OneRecordPerDocument ==
    ePc = "done" => Len(eResult[1]) = Len(docs)

\* C10 (as amended): a call that returns, on the sequential, the parallel or
\* the fallback path, yields exactly one record for every input document
\* whose conversion did not raise and none for the others, in input order,
\* each with the input index as id; so len(result) == len(documents) exactly
\* when no conversion raised.
C10_OneRecordPerConvertedDocument ==
    ePc = "done" =>
        /\ eResult[1] = Surviving
        /\ (Len(eResult[1]) = Len(docs))
               <=> (\A i \in 1..Len(docs) : ~ConversionRaises(docs[i]))

\* C10 witness: the fallback path returned two records for three documents,
\* the middle one having been dropped.
C10_Witness ==
    /\ ePc = "done"
    /\ eCause # None
    /\ Len(docs) = 3
    /\ ConversionRaises(docs[2])
    /\ Len(eResult[1]) = 2
    /\ eResult[1][2].id = 2


(***************************************************************************)
(* Properties of the conversion of sparse vectors and of the query path.   *)
(***************************************************************************)

\* The entries of a sparse vector whose token the table knows, in the
\* vector's iteration order.
KnownEntries(sv, table) == SelectSeq(sv, LAMBDA e : e.token \in DOMAIN table)

ExpectedIndices(sv, table) ==
    [i \in 1..Len(KnownEntries(sv, table)) |-> table[KnownEntries(sv, table)[i].token]]

ExpectedValues(sv, table) ==
    [i \in 1..Len(KnownEntries(sv, table)) |->
        IF KnownEntries(sv, table)[i].weight \in DOMAIN FloatOf
          THEN FloatOf[KnownEntries(sv, table)[i].weight]
          ELSE -1]

\* A known token carries a weight float() rejects.
KnownBadWeight(sv, table) ==
    \E i \in DOMAIN sv : /\ sv[i].token \in DOMAIN table
                         /\ sv[i].weight \notin DOMAIN FloatOf

NoKnownToken == \A i \in DOMAIN sparse_vector : sparse_vector[i].token \notin DOMAIN token2id

WhitespaceOnly == \A i \in DOMAIN query : query[i] \in Whitespace

\* C13: encode_query2vector refuses the empty and the whitespace-only query
\* with ValueError before the vocabulary cache is consulted or the model is
\* called; a query with a non-whitespace character is never refused so.
C13_EmptyQueryRejectedFirst ==
    qPc \in {"encode", "done", "raised"} =>
        IF WhitespaceOnly
          THEN /\ qPc = "raised"
               /\ qRet = Some([raised |-> "ValueError", vector |-> None])
               /\ qLog = << >>
               /\ \A m \in ModelIds : loadLog[m] = << >> /\ token2id_cache[m] = None
               /\ query_sparse_vector = None
          ELSE qRet = None \/ qRet[1].raised # "ValueError"

\* C13 witness: a query of a blank and a tab was refused.
C13_Witness ==
    /\ qPc = "raised"
    /\ Len(query) = 2
    /\ query[1] # query[2]
    /\ WhitespaceOnly

(***************************************************************************)
(* Properties of the strategy choice and of the fallback.                  *)
(***************************************************************************)

\* C14: encode_documents2points takes the sequential path if use_parallel
\* is false or the number of documents is at most parallel_threshold, and
\* the parallel path whenever use_parallel is true and the number of
\* documents is above parallel_threshold, whatever max_workers is.
C14_StrategyByFlagAndCount ==
    ePc \in {"sequential", "parallel"} =>
        (ePc = "sequential" <=>
            (~econfig.use_parallel \/ Len(docs) <= econfig.parallel_threshold))

\* C15: when a chunk of the parallel run has failed, what
\* encode_documents2points returns comes from one sequential run over the
\* whole input, made from scratch after the parallel stage: the last model
\* call is the fallback's, over all documents from id 0, and the records
\* are those of that run alone, none of a collected chunk added.
C15_FallbackFromScratch ==
    (ePc = "done" /\ \E c \in ChunkIdx : futures[c] = "failed") =>
        /\ eCause # None
        /\ modelCalls[Len(modelCalls)] =
             [path |-> "fallback", offset |-> 0, ndocs |-> Len(docs)]
        /\ eResult = Some(Surviving)

\* C15 witness: a chunk had been collected when another chunk's failure was
\* handed over, and the call returned after the fallback.
C15_Witness ==
    /\ ePc = "done"
    /\ eCause = Some("chunk_failed")
    /\ points_dict # << >>
    /\ Surviving # << >>

\* C16: when the parallel stage times out, the chunk work still outstanding
\* is abandoned: the encoder does not wait for the chunk workers that have
\* not finished, but goes on to the sequential fallback.
C16_TimeoutAbandonsWorkers ==
    (ePc = "exit_pool" /\ eCause = Some("timeout")) => ENABLED PoolExit

\* The model calls made over the whole input.
WholeInputCalls ==
    SelectSeq(modelCalls, LAMBDA c : c.path \in {"sequential", "fallback"})

\* C17: a call makes at most one model call over the whole input (the
\* sequential path's or the fallback's, never a second one after a failure);
\* when that model call raises, the call ends with the exception and
\* returns nothing.
C17_NoRetryNoPartialResult ==
    /\ Len(WholeInputCalls) <= 1
    /\ (\E i \in DOMAIN modelErrors : modelErrors[i] \in {"sequential", "fallback"}) =>
          (ePc = "raised" /\ eResult = None)

\* C17 witness: chunks were collected, a chunk failed, and the model call
\* of the fallback raised too.
C17_Witness ==
    /\ ePc = "raised"
    /\ points_dict # << >>
    /\ \E i \in DOMAIN modelErrors : modelErrors[i] = "fallback"

(***************************************************************************)
(* Properties of SparseSearchEngine.upsert_documents.                      *)
(***************************************************************************)

\* upsert_documents is over, and encode_documents2points had raised in it.
EncodingFailed == mPc \in {"done", "raised"} /\ ePc = "raised"

\* A client.upsert call of upsert_documents raised.
WriteFailed == \E i \in DOMAIN storeWrites : storeWrites[i].outcome # "ok"

C19_NeverRaisesForWriteFailure ==
    WriteFailed => (mPc = "done" /\ mRet # None)

\* C19 (as amended): upsert_documents issues at most one store write, of
\* all the encoded points; when that write fails the call raises and
\* returns nothing; when the call returns, the count is the number of
\* points written.
C19_RaisesOnWriteFailure ==
    /\ Len(storeWrites) <= 1
    /\ \A i \in DOMAIN storeWrites : storeWrites[i].points = eResult[1]
    /\ WriteFailed => (mPc = "raised" /\ mRet = None)
    /\ (mPc = "done" /\ documents # << >>) =>
          /\ Len(storeWrites) = 1
          /\ ~WriteFailed
          /\ mRet = Some(Len(storeWrites[1].points))

\* C19 witness: the write of two encoded points failed and the call is
\* over.
C19_Witness ==
    /\ mPc \in {"done", "raised"}
    /\ WriteFailed
    /\ Len(storeWrites[1].points) = 2

(***************************************************************************)
(* The order of the writes of upsert_points_batched.                       *)
(***************************************************************************)

\* The points of batch j, read off the argument by position.
PointsOfBatch(j) ==
    [k \in 1..(Min(Len(points), (j + 1) * uconfig.batch_size) - j * uconfig.batch_size)
        |-> points[j * uconfig.batch_size + k]]

\* C20: the writes of upsert_points_batched are strictly sequential: the
\* batches reach their final outcome in ascending batch index, one outcome
\* per batch; while a batch is being attempted every batch before it has
\* its final outcome and no batch after it has been attempted; and the
\* client.upsert calls of a batch are made one after the other, each with
\* the points of that batch.
C20_StrictlySequential ==
    /\ \A i \in Left : /\ outcomes[i].batch_index = i - 1
                       /\ outcomes[i].batch = PointsOfBatch(i - 1)
    /\ uPc \in {"attempt", "sleep"} =>
          /\ batch_idx = Len(outcomes)
          /\ \A k \in DOMAIN curLog : /\ curLog[k].attempt = k
                                      /\ curLog[k].points = PointsOfBatch(batch_idx)

\* C20 witness: the third batch is in its second attempt, after the first
\* batch failed on every attempt and the second was written.
C20_Witness ==
    /\ uPc = "attempt"
    /\ batch_idx = 2
    /\ Len(curLog) = 1
    /\ BatchFailed(1)
    /\ outcomes[2].written

(***************************************************************************)
(* The entries of the vocabulary cache.                                    *)
(***************************************************************************)

\* C21: every get_cached_token2id call that returns for a model identifier
\* returns the table the cache holds for it, whatever tokenizer the call
\* passes; an entry, once set, is never replaced or removed; and a step of a
\* call changes no entry but that of the call's own identifier.  Hence every
\* call for an identifier returns the instance the first returning call got.
C21_SameInstanceForever ==
    [][/\ \A m \in ModelIds :
            token2id_cache[m] # None => token2id_cache'[m] = token2id_cache[m]
       /\ \A m \in ModelIds :
            token2id_cache'[m] # token2id_cache[m] =>
                \E t \in Threads : /\ cache_lock = Some(t)
                                   /\ tArgs[t].model_path = m
                                   /\ \A k \in ModelIds \ {m} :
                                        token2id_cache'[k] = token2id_cache[k]
       /\ \A t \in Threads :
            (tRet'[t] # tRet[t] /\ tRet'[t] # None /\ ~tRet'[t][1].raised) =>
                /\ token2id_cache[tArgs[t].model_path] # None
                /\ tRet'[t][1].table = token2id_cache'[tArgs[t].model_path]
      ]_vars

\* C21 witness: two calls for one identifier, made with different
\* tokenizers, have returned, both with the table the cache holds, while
\* another identifier has no entry.
C21_Witness ==
    \E m \in ModelIds : \E t1, t2 \in Threads :
        /\ t1 # t2
        /\ ReturnedFor(t1, m)
        /\ ReturnedFor(t2, m)
        /\ tArgs[t1].tokenizer # tArgs[t2].tokenizer
        /\ tRet[t1][1].table = tRet[t2][1].table
        /\ tRet[t1][1].table = token2id_cache[m]
        /\ \E k \in ModelIds : token2id_cache[k] = None

(***************************************************************************)
(* Properties of the empty input and of the record ids.                    *)
(***************************************************************************)

\* No get_vocab() call has been made.
NoVocabularyLoad == \A m \in ModelIds : loadLog[m] = << >>

\* C22: a call with an empty document list ends at once, without a
\* vocabulary load, a model call or a store write: in
\* encode_documents2points, in encode_documents2points_batched, in
\* upsert_points_batched and in upsert_documents.
C22_EmptyListNoWork ==
    /\ (ePc \notin {"idle", "call"} /\ docs = << >>) =>
          (ePc = "done" /\ NoVocabularyLoad /\ modelCalls = << >>)
    /\ (gPc \notin {"idle", "call"} /\ gArgs.docs = << >>) =>
          (gPc = "done" /\ NoVocabularyLoad /\ gCalls = << >>)
    /\ (uPc \notin {"idle", "call"} /\ points = << >>) =>
          (uPc = "done" /\ curLog = << >> /\ outcomes = << >>)
    /\ (mPc \notin {"idle", "call"} /\ is_initialized /\ documents = << >>) =>
          (mPc = "done" /\ NoVocabularyLoad /\ modelCalls = << >>
           /\ storeWrites = << >>)

\* C23: on the sequential path of encode_documents2points no model call
\* receives more than batch_size documents.
C23_SequentialCallsWithinBatchSize ==
    \A i \in DOMAIN modelCalls :
        modelCalls[i].path = "sequential" =>
            modelCalls[i].ndocs <= econfig.batch_size

\* All the records the generator has yielded, batch after batch.
RECURSIVE YieldedRecords(_)
YieldedRecords(k) ==
    IF k = 0 THEN << >>
    ELSE YieldedRecords(k - 1) \o yielded[k].batch_points

\* The ids of a sequence of records go up strictly (so no id comes twice)
\* and every record carries the text of the document at position
\* id - base of ds.
IdsAreInputIndices(records, ds, base) ==
    /\ \A i \in DOMAIN records :
          /\ records[i].id - base \in 0..(Len(ds) - 1)
          /\ records[i].text = ds[records[i].id - base + 1]
    /\ \A i, j \in DOMAIN records : i < j => records[i].id < records[j].id

FailedAttempts == Len(SelectSeq(curLog, LAMBDA e : e.outcome # "ok"))

\* _upsert_batch_with_retry has just been left: curLog and curSleeps are
\* those of the batch it was called for.
BatchJustLeft ==
    /\ uPc \in {"loop", "done"}
    /\ outcomes # << >>
    /\ curLog # << >>

\* C25: the writer sleeps only between two attempts of one batch: every
\* sleep comes after a failed attempt that was not the max_retries-th and
\* before the next attempt; a batch left after f failed attempts has slept
\* f times if it was written and f - 1 times if it was not; and the first
\* sleep of every batch is retry_delay_seconds.
C25_SleepsOnlyBetweenAttempts ==
    /\ \A k \in DOMAIN curSleeps : /\ k <= Len(curLog)
                                   /\ curLog[k].outcome # "ok"
                                   /\ k < uconfig.max_retries
    /\ uPc # "attempt" => (curLog = << >> \/ Len(curSleeps) < Len(curLog))
    /\ BatchJustLeft =>
          Len(curSleeps) = IF outcomes[Len(outcomes)].written
                             THEN FailedAttempts
                             ELSE FailedAttempts - 1
    /\ curSleeps # << >> => curSleeps[1] = uconfig.retry_delay_seconds
    /\ (uPc = "attempt" /\ curLog = << >>) => delay = uconfig.retry_delay_seconds

\* C25 witness: the second batch is about to be attempted again after its
\* first sleep, of retry_delay_seconds, the first batch having slept twice
\* before it was given up.
C25_Witness ==
    /\ uPc = "attempt"
    /\ batch_idx = 1
    /\ curSleeps = <<uconfig.retry_delay_seconds>>
    /\ outcomes[1].sleeps = 2
    /\ BatchFailed(1)

\* C26: every client.upsert call of a batch sends the same points in the
\* same order; no call follows a call of that batch that succeeded; and no
\* point is sent in two batches.
C26_SameRecordsOnRetry ==
    /\ \A k \in DOMAIN curLog : curLog[k].points = curLog[1].points
    /\ \A k \in 1..(Len(curLog) - 1) : curLog[k].outcome # "ok"
    /\ \A i, j \in Left :
          i < j => \A a \in DOMAIN outcomes[i].batch, b \in DOMAIN outcomes[j].batch :
                       outcomes[i].batch[a] # outcomes[j].batch[b]
    /\ uPc \in {"attempt", "sleep"} =>
          \A i \in Left : \A k \in DOMAIN curLog :
              \A a \in DOMAIN outcomes[i].batch, b \in DOMAIN curLog[k].points :
                  outcomes[i].batch[a] # curLog[k].points[b]

\* C26 witness: the second batch, of two points, has been sent three times,
\* the third time with success.
C26_Witness ==
    /\ uPc = "loop"
    /\ batch_idx = 2
    /\ Len(curLog) = 3
    /\ Len(curLog[1].points) = 2
    /\ curLog[3].outcome = "ok"

(***************************************************************************)
(* The vocabulary cache when the loader raises.                            *)
(***************************************************************************)

\* C27: when get_vocab() raises inside get_cached_token2id, the call ends
\* with the exception, the lock is free again and the cache still has no
\* entry for the identifier; a call that finds no entry calls the loader;
\* and every call that has begun comes to its end, returning or raising:
\* the calls of a run being finitely many, from some point on every thread
\* is outside the function.
C27_LoaderFailureLeavesCacheUsable ==
    /\ [][\A t \in Threads :
            /\ (tPc[t] = "load" /\ tPc'[t] = "out") =>
                  /\ cache_lock' = None
                  /\ token2id_cache'[tArgs[t].model_path] = None
                  /\ tRet'[t] = Some([raised |-> TRUE, table |-> None])
            /\ (tPc[t] = "check" /\ tPc'[t] # "check"
                  /\ token2id_cache[tArgs[t].model_path] = None) =>
                  tPc'[t] = "load"
         ]_vars
    /\ <>[](\A t \in Threads : tPc[t] = "out")

\* C27 witness: the loader raised for an identifier, and a later call for
\* it has called the loader again and holds the table, while another thread
\* waits for the lock.
C27_Witness ==
    \E m \in ModelIds : \E t1, t2 \in Threads :
        /\ Len(loadLog[m]) = 2
        /\ loadLog[m][1] = "raises"
        /\ loadLog[m][2] = "ok"
        /\ tPc[t1] = "return"
        /\ tPc[t2] = "with"
        /\ tRet[t2] = None

(***************************************************************************)
(* Termination of upsert_points_batched.                                   *)
(***************************************************************************)

\* A batch is inside _upsert_batch_with_retry.
InRetryLoop == uPc \in {"attempt", "sleep"}

\* The client.upsert calls and the time.sleep calls made so far in the call.
TotalAttempts ==
    SumSeq([i \in Left |-> outcomes[i].attempts])
      + (IF InRetryLoop THEN Len(curLog) ELSE 0)

TotalSleeps ==
    SumSeq([i \in Left |-> outcomes[i].sleeps])
      + (IF InRetryLoop THEN Len(curSleeps) ELSE 0)

\* An upper bound of the number of steps the call still has to make: each
\* batch not begun costs its entry, max_retries attempts and
\* max_retries - 1 sleeps.
StepsLeft ==
    LET nb == Ceil(Len(points), uconfig.batch_size)
        perBatch == 2 * uconfig.max_retries
    IN  CASE uPc = "call" -> nb * perBatch + 2
          [] uPc = "loop" -> (nb - batch_idx) * perBatch + 1
          [] uPc = "attempt" ->
               (nb - batch_idx - 1) * perBatch + 2 * (uconfig.max_retries - attempt) + 2
          [] uPc = "sleep" ->
               (nb - batch_idx - 1) * perBatch + 2 * (uconfig.max_retries - attempt) + 1
          [] OTHER -> 0

\* C28: with batch_size >= 1 and max_retries >= 1, upsert_points_batched
\* terminates whatever the writes do: a call that has not returned can
\* always take a step, every step lowers a bound on the steps left that is
\* never negative, the call does not end by raising, and at no time have
\* more than ceil(N/B) * max_retries writes been attempted or more than
\* ceil(N/B) * (max_retries - 1) sleeps been made.
C28_TerminatesWithinBounds ==
    /\ [](uconfig.max_retries >= 1 =>
            /\ uPc # "raised"
            /\ uPc # "done" => ENABLED NextUpsert
            /\ StepsLeft >= 0
            /\ TotalAttempts <=
                 Ceil(Len(points), uconfig.batch_size) * uconfig.max_retries
            /\ TotalSleeps <=
                 Ceil(Len(points), uconfig.batch_size) * (uconfig.max_retries - 1))
    /\ [][uconfig.max_retries >= 1 => StepsLeft' < StepsLeft]_vars

\* C28 witness: the call returned after each of its three batches failed
\* on each of its three attempts: nine writes and six sleeps.
C28_Witness ==
    /\ uPc = "done"
    /\ uconfig.max_retries = 3
    /\ Len(outcomes) = 3
    /\ TotalAttempts = 9
    /\ TotalSleeps = 6

(***************************************************************************)
(* Termination of encode_documents2points.                                 *)
(***************************************************************************)

\* The model calls of the parallel stage made on the chunk at `offset`.
ChunkCallsAt(offset) ==
    SelectSeq(modelCalls, LAMBDA m : m.path = "chunk" /\ m.offset = offset)

Queued == {c \in ChunkIdx : futures[c] = "queued"}

\* The futures that finished and were not yet handed over by as_completed.
ToCollect == Finished \ Keys(points_dict)

\* An upper bound of the number of steps the call still has to make: a
\* queued chunk is started, finished and collected, and after the parallel
\* stage come at most the exit of the pool and the fallback.
EncodeStepsLeft ==
    CASE ePc = "call" -> 3 * Len(docs) + 6
      [] ePc = "parallel" ->
           3 * Cardinality(Queued) + 2 * Cardinality(Running)
             + Cardinality(ToCollect) + 4
      [] ePc = "exit_pool" -> 2 * Cardinality(Queued) + Cardinality(Running) + 2
      [] ePc \in {"sequential", "fallback"} -> 1
      [] OTHER -> 0

\* C29: as every model call ends, encode_documents2points terminates: a call
\* that has neither returned nor raised can always take a step and every
\* step lowers a bound on the steps left that is never negative.  In one
\* call the model is called at most once on each chunk and only on chunks,
\* and a model call over the whole input is the last model call of the
\* call, so there is at most one and it follows the parallel stage.
C29_TerminatesChunksOnce ==
    /\ [](/\ ePc \in {"call", "sequential", "parallel", "exit_pool", "fallback"} =>
               ENABLED NextEncode
          /\ EncodeStepsLeft >= 0
          /\ LET chunks == TheChunks
             IN  \A i \in DOMAIN modelCalls :
                   IF modelCalls[i].path = "chunk"
                     THEN /\ \E c \in ChunkIdx :
                               /\ chunks[c + 1].offset = modelCalls[i].offset
                               /\ futures[c] # "queued"
                          /\ \A j \in DOMAIN modelCalls :
                               (j # i /\ modelCalls[j].path = "chunk") =>
                                  modelCalls[j].offset # modelCalls[i].offset
                     ELSE i = Len(modelCalls))
    /\ [][EncodeStepsLeft' < EncodeStepsLeft]_vars

\* C29 witness: the call returned the result of the fallback after the
\* model had been called once on each of at least two chunks.
C29_Witness ==
    /\ ePc = "done"
    /\ Cardinality(ChunkIdx) >= 2
    /\ Len(modelCalls) = Cardinality(ChunkIdx) + 1
    /\ modelCalls[Len(modelCalls)].path = "fallback"
    /\ \A c \in ChunkIdx : Len(ChunkCallsAt(TheChunks[c + 1].offset)) = 1

====
